---- MODULE Spec2Model ----
(***************************************************************************)
(* A model of unisbom: the collector dispatcher, the macOS and Windows     *)
(* collectors, and the Windows helpers (wide-string codec, registry value  *)
(* decoding, version-resource extraction).                                 *)
(*                                                                         *)
(* Text is a sequence of Unicode scalar values (a Rust String), a UTF-16   *)
(* buffer is a sequence of 16-bit units, a byte buffer a sequence of       *)
(* bytes.  The empty string is << >>.                                      *)
(***************************************************************************)
EXTENDS Integers, Sequences, FiniteSets, TLC

VARIABLES
    target,        \* the build target: "macos", "windows" or "linux"
    pc,            \* position of main() in the run
    err,           \* the Error a failed run carries (NoError until then)
    constructed,   \* the platform collectors constructed so far
    calls,         \* the Collector trait methods invoked, in order
    toolRuns,      \* how many times the external tool was spawned
    toolExit,      \* how the last spawn ended: "none", "spawn_failed", "nonzero", "ok"
    parsed,        \* how many times the tool's stdout was handed to a parser
    records,       \* the source records processed in the current phase, in order
    drivers,       \* Windows: the components of collect_drivers
    apps,          \* Windows: the components of collect_apps
    location,      \* Windows: index into UNINSTALL_LOCATIONS of collect_apps
    comps,         \* the value collect() returned (<< >> until it returns Ok)
    stdout,        \* what main() printed
    fn,            \* helper level: the helper that was called
    arg,           \* helper level: its argument
    ret            \* helper level: Pending, or what it returned

vars == <<target, pc, err, constructed, calls, toolRuns, toolExit, parsed,
          records, drivers, apps, location, comps, stdout, fn, arg, ret>>

runVars == <<target, pc, err, constructed, calls, toolRuns, toolExit, parsed,
             records, drivers, apps, location, comps, stdout>>

fnVars == <<fn, arg, ret>>

(***************************************************************************)
(* Bounds of the model.                                                    *)
(***************************************************************************)
MaxStrLen == 2      \* code points of an encoder input
MaxWords == 4       \* 16-bit units of a registry value's data
MaxSubkeys == 2     \* subkeys under the two uninstall roots of a registry reader call
MaxRecords == 3     \* source records (drivers, subkeys, profile entries) of one run

(***************************************************************************)
(* Characters the code names.                                              *)
(***************************************************************************)
NUL == 0
NEWLINE == 10
REPLACEMENT_CHARACTER == 65533

\* Sequences over S of length at most n.
SeqsUpTo(S, n) == UNION {[1..k -> S] : k \in 0..n}

RECURSIVE Concat(_)
Concat(ss) == IF ss = <<>> THEN <<>> ELSE Head(ss) \o Concat(Tail(ss))

\* Text of a short ASCII literal, one code point per character.
Ascii(c) ==
    CASE c = "0" -> 48 [] c = "1" -> 49 [] c = "2" -> 50 [] c = "3" -> 51
      [] c = "4" -> 52 [] c = "5" -> 53 [] c = "6" -> 54 [] c = "7" -> 55
      [] c = "8" -> 56 [] c = "9" -> 57 [] c = "." -> 46 [] c = " " -> 32
      [] c = "," -> 44 [] c = "[" -> 91 [] c = "]" -> 93 [] c = "/" -> 47
      [] c = "m" -> 109 [] c = "a" -> 97 [] c = "c" -> 99 [] c = "O" -> 79
      [] c = "S" -> 83 [] c = "d" -> 100 [] c = "k" -> 107 [] c = "p" -> 112
      [] c = "x" -> 120 [] c = "n" -> 110 [] c = "b" -> 98 [] c = "v" -> 118

Text(cs) == [i \in 1..Len(cs) |-> Ascii(cs[i])]

(***************************************************************************)
(* The Rust standard library as the code uses it.                          *)
(***************************************************************************)

\* u32/u64 Display: the decimal digits of n.
RECURSIVE Decimal(_)
Decimal(n) == IF n < 10 THEN <<48 + n>> ELSE Decimal(n \div 10) \o <<48 + (n % 10)>>

IsHighSurrogate(u) == u >= 55296 /\ u <= 56319
IsLowSurrogate(u) == u >= 56320 /\ u <= 57343

\* String::from_utf16_lossy: surrogate pairs combine, an unpaired surrogate
\* becomes U+FFFD, every other unit is its own code point.
RECURSIVE from_utf16_lossy(_)
from_utf16_lossy(w) ==
    IF w = <<>> THEN <<>>
    ELSE LET u == Head(w) IN
         IF ~IsHighSurrogate(u) /\ ~IsLowSurrogate(u)
         THEN <<u>> \o from_utf16_lossy(Tail(w))
         ELSE IF IsHighSurrogate(u) /\ Len(w) >= 2 /\ IsLowSurrogate(w[2])
         THEN <<65536 + (u - 55296) * 1024 + (w[2] - 56320)>>
                  \o from_utf16_lossy(SubSeq(w, 3, Len(w)))
         ELSE <<REPLACEMENT_CHARACTER>> \o from_utf16_lossy(Tail(w))

\* while s.ends_with('\0') { s.pop(); }
RECURSIVE PopTrailingNul(_)
PopTrailingNul(s) ==
    IF s # <<>> /\ s[Len(s)] = NUL THEN PopTrailingNul(SubSeq(s, 1, Len(s) - 1))
    ELSE s

\* str::replace(from, to) for a one-character pattern.
ReplaceChar(s, from, to) == [i \in 1..Len(s) |-> IF s[i] = from THEN to ELSE s[i]]

IsPrefixAt(s, i, pat) ==
    /\ i + Len(pat) - 1 <= Len(s)
    /\ \A k \in 1..Len(pat) : s[i + k - 1] = pat[k]

\* str::replace(pat, to): every non-overlapping match, left to right.
RECURSIVE ReplaceFrom(_, _, _, _)
ReplaceFrom(s, i, pat, to) ==
    IF i > Len(s) THEN <<>>
    ELSE IF IsPrefixAt(s, i, pat) THEN to \o ReplaceFrom(s, i + Len(pat), pat, to)
    ELSE <<s[i]>> \o ReplaceFrom(s, i + 1, pat, to)

Replace(s, pat, to) == ReplaceFrom(s, 1, pat, to)

\* The UTF-8 bytes of one scalar value (str::as_bytes of a one-character str).
Utf8OfChar(c) ==
    IF c < 128 THEN <<c>>
    ELSE IF c < 2048 THEN <<192 + (c \div 64), 128 + (c % 64)>>
    ELSE IF c < 65536
         THEN <<224 + (c \div 4096), 128 + ((c \div 64) % 64), 128 + (c % 64)>>
    ELSE <<240 + (c \div 262144), 128 + ((c \div 4096) % 64),
           128 + ((c \div 64) % 64), 128 + (c % 64)>>

\* s.as_bytes()
as_bytes(s) == Concat([i \in 1..Len(s) |-> Utf8OfChar(s[i])])

(***************************************************************************)
(* Wide-string encoder: Collector::string_to_u16 (windows/mod.rs) and      *)
(* str_to_pcwstr (windows/api.rs), with the two windows::core helpers they *)
(* call.  Positions are 0-based as in the code; bytes[pos + 1] is the      *)
(* code's bytes[pos].                                                      *)
(***************************************************************************)
None == [some |-> FALSE]
Some(cp, pos) == [some |-> TRUE, code_point |-> cp, new_pos |-> pos]

IsCont(b) == b \div 64 = 2      \* (b & 0xc0) == 0x80

\* windows::core::decode_utf8_char(bytes, pos)
decode_utf8_char(bytes, pos) ==
    IF Len(bytes) = pos THEN None
    ELSE LET ch == bytes[pos + 1]
             left == Len(bytes) - (pos + 1)
         IN
         IF ch <= 127 THEN Some(ch, pos + 1)
         ELSE IF ch \div 32 = 6 THEN          \* (ch & 0xe0) == 0xc0
              IF left < 1 \/ ~IsCont(bytes[pos + 2]) THEN None
              ELSE LET r == (ch % 32) * 64 + (bytes[pos + 2] % 64)
                   IN IF r <= 127 THEN None ELSE Some(r, pos + 2)
         ELSE IF ch \div 16 = 14 THEN         \* (ch & 0xf0) == 0xe0
              IF left < 2 \/ ~IsCont(bytes[pos + 2]) \/ ~IsCont(bytes[pos + 3]) THEN None
              ELSE LET r == (ch % 16) * 4096 + (bytes[pos + 2] % 64) * 64
                                + (bytes[pos + 3] % 64)
                   IN IF r <= 2047 \/ (55296 <= r /\ r <= 57343) THEN None
                      ELSE Some(r, pos + 3)
         ELSE IF ch \div 8 = 30 THEN          \* (ch & 0xf8) == 0xf0
              IF left < 3 \/ ~IsCont(bytes[pos + 2]) \/ ~IsCont(bytes[pos + 3])
                          \/ ~IsCont(bytes[pos + 4]) THEN None
              ELSE LET r == (ch % 8) * 262144 + (bytes[pos + 2] % 64) * 4096
                                + (bytes[pos + 3] % 64) * 64 + (bytes[pos + 4] % 64)
                   IN IF r <= 65535 \/ r > 1114111 THEN None ELSE Some(r, pos + 4)
         ELSE None

\* windows::core::utf16_len(bytes)
RECURSIVE utf16_len_from(_, _)
utf16_len_from(bytes, pos) ==
    LET d == decode_utf8_char(bytes, pos) IN
    IF ~d.some THEN 0
    ELSE (IF d.code_point <= 65535 THEN 1 ELSE 2) + utf16_len_from(bytes, d.new_pos)

utf16_len(bytes) == utf16_len_from(bytes, 0)

\* buffer[output_pos] = value: an index past the end panics.
Store(st, value) ==
    IF st.panicked \/ st.output_pos >= Len(st.buffer)
    THEN [st EXCEPT !.panicked = TRUE]
    ELSE [st EXCEPT !.buffer[st.output_pos + 1] = value,
                    !.output_pos = st.output_pos + 1,
                    !.top = IF st.output_pos > st.top THEN st.output_pos ELSE st.top]

\* The loop body as it would be without the surrogate branch: every code
\* point is cast to one unit.
EncodeStep_truncating(st, code_point) == Store(st, code_point % 65536)

\* The body of the encoder's while-let loop for one decoded code point.
EncodeStep(st, code_point) ==
    IF code_point <= 65535
    THEN Store(st, code_point % 65536)
    ELSE LET cp == code_point - 65536 IN
         Store(Store(st, (55296 + ((cp \div 1024) % 65536)) % 65536),
               (56320 + ((cp % 1024) % 65536)) % 65536)

RECURSIVE EncodeLoop(_, _, _)
EncodeLoop(input, input_pos, st) ==
    LET d == decode_utf8_char(input, input_pos) IN
    IF ~d.some \/ st.panicked THEN st
    ELSE EncodeLoop(input, d.new_pos, EncodeStep(st, d.code_point))

\* The encoder as it would be with a buffer of utf16_len units, without the
\* unit kept for the terminator.
EncodeRun_no_terminator(s) ==
    LET input == as_bytes(s)
        output_len == utf16_len(input)
    IN  EncodeLoop(input, 0,
            [buffer |-> [i \in 1..output_len |-> 0], output_pos |-> 0,
             top |-> -1, panicked |-> FALSE])

\* The encoder's run: the buffer it returns, the highest index it wrote
\* (-1 when it wrote none) and whether an out-of-range write panicked.
EncodeRun(s) ==
    LET input == as_bytes(s)
        output_len == utf16_len(input) + 1
    IN  IF output_len = 1
        THEN [buffer |-> <<0>>, output_pos |-> 0, top |-> -1, panicked |-> FALSE]
        ELSE EncodeLoop(input, 0,
                 [buffer |-> [i \in 1..output_len |-> 0], output_pos |-> 0,
                  top |-> -1, panicked |-> FALSE])

\* Collector::string_to_u16(s): the Vec<u16> it returns.
string_to_u16(s) == EncodeRun(s).buffer

\* str_to_pcwstr(s): the units behind the PCWSTR it returns.
str_to_pcwstr(s) == EncodeRun(s).buffer

(***************************************************************************)
(* Registry value decoding: regvalue_to_string (windows/api.rs) and        *)
(* Application::regvalue_to_string (windows/mod.rs).  A RegValue is        *)
(* [vtype, bytes].                                                         *)
(***************************************************************************)
StringTypes == {"REG_SZ", "REG_EXPAND_SZ", "REG_MULTI_SZ"}

\* slice::from_raw_parts(bytes.as_ptr() as *const u16, bytes.len() / 2)
\* on a little-endian target: an odd last byte is left out.
Words(bytes) == [i \in 1..(Len(bytes) \div 2) |-> bytes[2 * i - 1] + 256 * bytes[2 * i]]

\* format!("{:?}", bytes) of a Vec<u8>: "[1, 2, 3]".
RECURSIVE DebugItems(_)
DebugItems(bytes) ==
    IF bytes = <<>> THEN <<>>
    ELSE IF Len(bytes) = 1 THEN Decimal(bytes[1])
    ELSE Decimal(bytes[1]) \o Text(<<",", " ">>) \o DebugItems(Tail(bytes))

DebugBytes(bytes) == Text(<<"[">>) \o DebugItems(bytes) \o Text(<<"]">>)

\* The decoder as it would be without the loop that pops trailing NULs.
regvalue_to_string_no_pop(v) ==
    IF v.vtype \in StringTypes
    THEN LET s == from_utf16_lossy(Words(v.bytes)) IN
         IF v.vtype = "REG_MULTI_SZ" THEN ReplaceChar(s, NUL, NEWLINE) ELSE s
    ELSE DebugBytes(v.bytes)

regvalue_to_string(v) ==
    IF v.vtype \in StringTypes
    THEN LET s == PopTrailingNul(from_utf16_lossy(Words(v.bytes))) IN
         IF v.vtype = "REG_MULTI_SZ" THEN ReplaceChar(s, NUL, NEWLINE) ELSE s
    ELSE DebugBytes(v.bytes)

\* The decoder as it would be with `if` for `while`: one trailing NUL popped.
Application_regvalue_to_string_pop_once(v) ==
    IF v.vtype \in StringTypes
    THEN LET t == from_utf16_lossy(Words(v.bytes))
             s == IF t # <<>> /\ t[Len(t)] = NUL THEN SubSeq(t, 1, Len(t) - 1) ELSE t
         IN  IF v.vtype = "REG_MULTI_SZ" THEN ReplaceChar(s, NUL, NEWLINE) ELSE s
    ELSE DebugBytes(v.bytes)

Application_regvalue_to_string(v) ==
    IF v.vtype \in StringTypes
    THEN LET s == PopTrailingNul(from_utf16_lossy(Words(v.bytes))) IN
         IF v.vtype = "REG_MULTI_SZ" THEN ReplaceChar(s, NUL, NEWLINE) ELSE s
    ELSE DebugBytes(v.bytes)

(***************************************************************************)
(* Version-resource extraction: Collector::get_file_version                *)
(* (windows/mod.rs) and parse_file_version (windows/api.rs).               *)
(*                                                                         *)
(* native is what the three Win32 calls answer for the file:               *)
(*   size       GetFileVersionInfoSizeW's result (0 is its failure)        *)
(*   loaded     whether GetFileVersionInfoW succeeds                       *)
(*   queried    whether VerQueryValueW succeeds                            *)
(*   ms, ls     dwProductVersionMS / dwProductVersionLS of the block, each *)
(*              as four little-endian bytes                                *)
(*   last_error GetLastError() after a failing call                        *)
(* The result carries the calls issued, in order, each with the bytes of    *)
(* the buffer it was handed, the length it was told, and whether the        *)
(* filename buffer it points to was still allocated.                       *)
(***************************************************************************)
Ok(v, issued) == [ok |-> TRUE, value |-> v, issued |-> issued]
Err(e, issued) == [ok |-> FALSE, error |-> e, issued |-> issued]

NativeCall(api, live, bufsize, len) ==
    [api |-> api, filename_live |-> live, buffer |-> bufsize, len |-> len]

\* format!("{} failed for {} with {}", api, path, code)
NativeError(api, path, code) == [api |-> api, path |-> path, code |-> code]

\* A u32 field of VS_FIXEDFILEINFO is its four bytes in the loaded buffer,
\* least significant first.
Shr16(dword) == dword[3] + 256 * dword[4]         \* dword >> 16
And0xFFFF(dword) == dword[1] + 256 * dword[2]     \* dword & 0xFFFF

\* The format as it would be with the halves of each field swapped.
FormatProductVersion_swapped(ms, ls) ==
    Decimal(And0xFFFF(ms)) \o Text(<<".">>) \o Decimal(Shr16(ms)) \o Text(<<".">>)
        \o Decimal(And0xFFFF(ls)) \o Text(<<".">>) \o Decimal(Shr16(ls))

\* format!("{}.{}.{}.{}", ms >> 16, ms & 0xFFFF, ls >> 16, ls & 0xFFFF)
FormatProductVersion(ms, ls) ==
    Decimal(Shr16(ms)) \o Text(<<".">>) \o Decimal(And0xFFFF(ms)) \o Text(<<".">>)
        \o Decimal(Shr16(ls)) \o Text(<<".">>) \o Decimal(And0xFFFF(ls))

\* The three calls on a file whose size query answers size: the buffer is a
\* Vec<u16> of size elements (2 * size bytes), the load is told size, the
\* block query size_of::<VS_FIXEDFILEINFO>().
SizeCall(live) == NativeCall("GetFileVersionInfoSizeW", live, 0, 0)
LoadCall(live, size) == NativeCall("GetFileVersionInfoW", live, 2 * size, size)
QueryCall(live, size) == NativeCall("VerQueryValueW", live, 2 * size, 52)

\* The extractor as it would be without the test of GetFileVersionInfoW's
\* result.
get_file_version_load_unchecked(path, native) ==
    LET c1 == SizeCall(FALSE)
        c2 == LoadCall(FALSE, native.size)
        c3 == QueryCall(FALSE, native.size)
    IN  IF native.size = 0
        THEN Err(NativeError("GetFileVersionInfoSizeW", path, native.last_error), <<c1>>)
        ELSE IF ~native.queried
        THEN Err(NativeError("VerQueryValueW", path, native.last_error), <<c1, c2, c3>>)
        ELSE Ok(FormatProductVersion(native.ms, native.ls), <<c1, c2, c3>>)

\* The filename pointer is taken from a temporary Vec<u16> that is dropped
\* at the end of the let statement: it is dangling at every call.
get_file_version(path, native) ==
    LET c1 == SizeCall(FALSE)
        c2 == LoadCall(FALSE, native.size)
        c3 == QueryCall(FALSE, native.size)
    IN  IF native.size = 0
        THEN Err(NativeError("GetFileVersionInfoSizeW", path, native.last_error), <<c1>>)
        ELSE IF ~native.loaded
        THEN Err(NativeError("GetFileVersionInfoW", path, native.last_error), <<c1, c2>>)
        ELSE IF ~native.queried
        THEN Err(NativeError("VerQueryValueW", path, native.last_error), <<c1, c2, c3>>)
        ELSE Ok(FormatProductVersion(native.ms, native.ls), <<c1, c2, c3>>)

\* str_to_pcwstr returns a pointer into a Vec<u16> it drops on return: the
\* filename is dangling at every call here as well.
parse_file_version(path, native) ==
    LET c1 == SizeCall(FALSE)
        c2 == LoadCall(FALSE, native.size)
        c3 == QueryCall(FALSE, native.size)
    IN  IF native.size = 0
        THEN Err(NativeError("GetFileVersionInfoSizeW", path, native.last_error), <<c1>>)
        ELSE IF ~native.loaded
        THEN Err(NativeError("GetFileVersionInfoW", path, native.last_error), <<c1, c2>>)
        ELSE IF ~native.queried
        THEN Err(NativeError("VerQueryValueW", path, native.last_error), <<c1, c2, c3>>)
        ELSE Ok(FormatProductVersion(native.ms, native.ls), <<c1, c2, c3>>)

(***************************************************************************)
(* Windows Application (windows/mod.rs): Application::new and its          *)
(* ComponentTrait.  properties is a function from value names to RegValue. *)
(***************************************************************************)
PATH_CANDIDATES == <<"InstallLocation", "InstallSource", "BundleCachePath">>

\* for path in [...] { if location.is_some() && !location.unwrap().is_empty() {..; break} }
RECURSIVE FirstLocation(_, _)
FirstLocation(props, candidates) ==
    IF candidates = <<>> THEN <<>>
    ELSE IF Head(candidates) \in DOMAIN props /\ props[Head(candidates)] # <<>>
    THEN props[Head(candidates)]
    ELSE FirstLocation(props, Tail(candidates))

\* The loop as it would be without its break: the last non-empty candidate
\* overrides the earlier ones.
RECURSIVE LastLocation(_, _)
LastLocation(props, candidates) ==
    IF candidates = <<>> THEN <<>>
    ELSE LET later == LastLocation(props, Tail(candidates)) IN
         IF later # <<>> THEN later
         ELSE IF Head(candidates) \in DOMAIN props THEN props[Head(candidates)]
         ELSE <<>>

Application_path_no_break(props) == LastLocation(props, PATH_CANDIDATES)

Application_path(props) == FirstLocation(props, PATH_CANDIDATES)

\* The version as it would be if an empty DisplayVersion were passed over
\* the way an empty path candidate is.
Application_version_skips_empty(props) ==
    IF "DisplayVersion" \in DOMAIN props /\ props["DisplayVersion"] # <<>>
    THEN props["DisplayVersion"]
    ELSE IF "Version" \in DOMAIN props THEN props["Version"]
    ELSE <<>>

\* if let Some(DisplayVersion) {..} else if let Some(Version) {..}
Application_version(props) ==
    IF "DisplayVersion" \in DOMAIN props THEN props["DisplayVersion"]
    ELSE IF "Version" \in DOMAIN props THEN props["Version"]
    ELSE <<>>

Application_new(key, modified, properties) ==
    LET props == [n \in DOMAIN properties |-> Application_regvalue_to_string(properties[n])]
    IN  [key |-> key,
         modified |-> modified,
         properties |-> props,
         name |-> IF "DisplayName" \in DOMAIN props THEN props["DisplayName"] ELSE <<>>,
         version |-> Application_version(props),
         path |-> Application_path(props),
         publishers |-> IF "Publisher" \in DOMAIN props THEN <<props["Publisher"]>> ELSE <<>>]

\* The component a record is seen as through ComponentTrait
\* (Component::from_trait reads exactly these seven).
WinApplication_component(a) ==
    [kind |-> "Application", name |-> a.name, id |-> a.key, version |-> a.version,
     path |-> a.path, modified |-> a.modified, publishers |-> a.publishers]

(***************************************************************************)
(* Windows Driver (windows/mod.rs).  A timestamp is a number of seconds;   *)
(* DateTime::default() is 0.                                               *)
(***************************************************************************)
DEFAULT_INSTANT == 0

\* The driverquery link dates the model knows: the one text of the set that
\* matches "%m/%e/%Y %l:%M:%S %p", with the instant it denotes.
WellFormedDate == Text(<<"1", "/", "2">>)
\* Utc.datetime_from_str(s, "%m/%e/%Y %l:%M:%S %p")
datetime_from_str(s) ==
    IF s = WellFormedDate THEN [ok |-> TRUE, value |-> 86400]
    ELSE [ok |-> FALSE, error |-> s]

\* A deserialized Driver: link_date, publishers and version are
\* skip_deserializing, so they start at their defaults.
Driver_deserialized(row) ==
    [module_name |-> row.module_name, display_name |-> row.display_name,
     link_date_string |-> row.link_date_string, path |-> row.path,
     link_date |-> DEFAULT_INSTANT, publishers |-> <<>>, version |-> <<>>]

\* Driver::parse as it would be if a malformed date left the default
\* instant in place.
Driver_parse_lenient(d) ==
    IF d.link_date_string # <<>>
    THEN LET t == datetime_from_str(d.link_date_string) IN
         IF t.ok THEN [ok |-> TRUE, value |-> [d EXCEPT !.link_date = t.value]]
         ELSE [ok |-> TRUE, value |-> d]
    ELSE [ok |-> TRUE, value |-> d]

\* Driver::parse
Driver_parse(d) ==
    IF d.link_date_string # <<>>
    THEN LET t == datetime_from_str(d.link_date_string) IN
         IF t.ok THEN [ok |-> TRUE, value |-> [d EXCEPT !.link_date = t.value]]
         ELSE [ok |-> FALSE, error |-> [kind |-> "datetime", raw |-> d.link_date_string]]
    ELSE [ok |-> TRUE, value |-> d]

Driver_component(d) ==
    [kind |-> "Driver", name |-> d.display_name, id |-> d.module_name,
     version |-> d.version, path |-> d.path, modified |-> d.link_date,
     publishers |-> d.publishers]

(***************************************************************************)
(* macOS records (macos/mod.rs).                                           *)
(***************************************************************************)
APPLE_DEFAULT_PUBLISHERS == <<"Apple Code Signing Certification Authority", "Apple Root CA">>

MACOS_PREFIX == Text(<<"m", "a", "c", "O", "S", " ">>)

OS_name == Text(<<"m", "a", "c", "O", "S">>)

OS_id == OS_name

OS_component(os) ==
    [kind |-> "OS", name |-> OS_name, id |-> OS_id, version |-> os.os_version,
     path |-> Text(<<"/">>), modified |-> DEFAULT_INSTANT,
     publishers |-> APPLE_DEFAULT_PUBLISHERS]

MacApplication_name(a) == a.name

\* Application::id as it would be if it returned another field of the record.
MacApplication_id_from_path(a) == a.path

MacApplication_id(a) == a.name

MacApplication_component(a) ==
    [kind |-> "Application", name |-> MacApplication_name(a), id |-> MacApplication_id(a),
     version |-> a.version, path |-> a.path, modified |-> a.modified,
     publishers |-> a.signed_by]

Extension_id(e) == e.bundleid

Extension_component(e) ==
    [kind |-> "Driver", name |-> e.name, id |-> Extension_id(e), version |-> e.version,
     path |-> e.path, modified |-> e.last_modified, publishers |-> e.signed_by]

(***************************************************************************)
(* What a run can meet: the targets the crate builds for, the rows the     *)
(* external tools print, the registry's subkeys and the files' version     *)
(* resources.                                                              *)
(***************************************************************************)
Targets == {"macos", "windows", "linux"}

NoError == [msg |-> ""]
Error(msg) == [msg |-> msg]

Pending == [done |-> FALSE]
Returned(v) == [done |-> TRUE, value |-> v]

\* driverquery /v /FO CSV rows (the columns the components read).
DriverRows ==
    [module_name : {<<>>, Text(<<"m">>)},
     display_name : {Text(<<"d">>)},
     link_date_string : {<<>>, WellFormedDate, Text(<<"x">>)},
     path : {Text(<<"p">>)}]

\* What the version calls can answer for a file.
Natives ==
    {[size |-> 0, loaded |-> FALSE, queried |-> FALSE, ms |-> <<0, 0, 0, 0>>, ls |-> <<0, 0, 0, 0>>, last_error |-> 2],
     [size |-> 8, loaded |-> FALSE, queried |-> FALSE, ms |-> <<0, 0, 0, 0>>, ls |-> <<0, 0, 0, 0>>, last_error |-> 1812],
     [size |-> 8, loaded |-> TRUE, queried |-> FALSE, ms |-> <<0, 0, 0, 0>>, ls |-> <<0, 0, 0, 0>>, last_error |-> 1813],
     [size |-> 8, loaded |-> TRUE, queried |-> TRUE, ms |-> <<2, 0, 1, 0>>,
      ls |-> <<4, 0, 3, 0>>, last_error |-> 0]}

\* The bytes of a string-typed registry value holding text s and its
\* terminating NUL (UTF-16, little-endian).
WideBytes(units) == Concat([i \in 1..Len(units) |-> <<units[i] % 256, units[i] \div 256>>])

Sz(s) == [vtype |-> "REG_SZ", bytes |-> WideBytes(s \o <<NUL>>)]

\* The named values an uninstall subkey can hold.
SubkeyValues ==
    {<<>>,
     [n \in {"DisplayName"} |-> Sz(Text(<<"n">>))],
     [n \in {"DisplayName", "InstallLocation", "InstallSource"} |->
         CASE n = "DisplayName" -> Sz(<<>>)
           [] n = "InstallLocation" -> Sz(<<>>)
           [] n = "InstallSource" -> Sz(Text(<<"x">>))]}

SubkeyNames == {Text(<<"k">>), Text(<<"k", "2">>)}

\* system_profiler rows.
OSRows == [os_version : {Text(<<"m", "a", "c", "O", "S", " ", "1", "4">>), Text(<<"1", "4">>)}]

ExtensionRows ==
    [name : {Text(<<"x">>)}, bundleid : {<<>>, Text(<<"b">>)}, version : {Text(<<"1">>)},
     path : {Text(<<"/", "x">>)}, last_modified : {3600}, signed_by : {<<"s">>}]

MacApplicationRows ==
    [name : {<<>>, Text(<<"a">>)}, version : {Text(<<"2">>)}, path : {Text(<<"/", "a">>)},
     modified : {3600}, signed_by : {<<>>}]

\* A source record as the run met it: where it came from, the row, and
\* whether a component was pushed for it.
Met(source, row, emitted) == [source |-> source, row |-> row, emitted |-> emitted]

(***************************************************************************)
(* The run: main() -> collector::get() -> collect() -> print.              *)
(***************************************************************************)
InitRun ==
    /\ target \in Targets
    /\ pc = "start"
    /\ err = NoError
    /\ constructed = <<>>
    /\ calls = <<>>
    /\ toolRuns = 0
    /\ toolExit = "none"
    /\ parsed = 0
    /\ records = <<>>
    /\ drivers = <<>>
    /\ apps = <<>>
    /\ location = 0
    /\ comps = <<>>
    /\ stdout = <<>>

IdleFn == fn = "" /\ arg = <<>> /\ ret = Pending

Init == InitRun /\ IdleFn

\* main() returns Err(e): nothing is printed.
Fail(e) ==
    /\ pc' = "exit_err"
    /\ err' = e

\* collector::get(): the cfg(target_os) variant compiled in.
\* get() as it would be if the fallback variant built a collector too.
get_unsupported_builds ==
    /\ constructed' = Append(constructed, target)
    /\ calls' = Append(calls, "setup")
    /\ pc' = "collect"
    /\ err' = err

get_unsupported ==
    /\ Fail(Error("unsupported operating system"))
    /\ UNCHANGED <<constructed, calls>>

get_supported ==
    /\ constructed' = Append(constructed, target)
    /\ calls' = Append(calls, "setup")
    /\ pc' = "collect"
    /\ err' = err

get ==
    /\ pc = "start"
    /\ IF target = "linux" THEN get_unsupported ELSE get_supported
    /\ UNCHANGED <<target, toolRuns, toolExit, parsed, records, drivers, apps, location,
                   comps, stdout, fn, arg, ret>>

\* The spawn as it would be without the status.success() test: only a
\* spawn that could not start is fatal.
Spawn_status_unchecked(tool, exit, next) ==
    /\ calls' = Append(calls, "collect")
    /\ toolRuns' = toolRuns + 1
    /\ toolExit' = exit
    /\ IF exit = "spawn_failed" THEN Fail(Error("could not execute " \o tool))
       ELSE pc' = next /\ err' = err

\* Command::new(tool)...output(): the one spawn of a collect().
Spawn(tool, exit, next) ==
    /\ calls' = Append(calls, "collect")
    /\ toolRuns' = toolRuns + 1
    /\ toolExit' = exit
    /\ CASE exit = "spawn_failed" -> Fail(Error("could not execute " \o tool))
         [] exit = "nonzero" -> Fail(Error(tool \o " exit status"))
         [] exit = "ok" -> pc' = next /\ err' = err

\* macos::Collector::collect up to the call of collect_from_json.
macos_collect ==
    /\ pc = "collect" /\ target = "macos"
    /\ \E exit \in {"spawn_failed", "nonzero", "ok"} : Spawn("system_profiler", exit, "mac_json")
    /\ UNCHANGED <<target, constructed, parsed, records, drivers, apps, location, comps,
                   stdout, fn, arg, ret>>

\* The push loops as they would be in the order Profile declares its
\* fields: os, apps, drivers.
collect_from_json_push_declared_order(os, exts, applications) ==
    [i \in 1..Len(os) |->
        OS_component([os[i] EXCEPT !.os_version = Replace(@, MACOS_PREFIX, <<>>)])]
    \o [i \in 1..Len(applications) |-> MacApplication_component(applications[i])]
    \o [i \in 1..Len(exts) |-> Extension_component(exts[i])]

\* The three push loops of collect_from_json over a decoded Profile.
collect_from_json_push(os, exts, applications) ==
    [i \in 1..Len(os) |->
        OS_component([os[i] EXCEPT !.os_version = Replace(@, MACOS_PREFIX, <<>>)])]
    \o [i \in 1..Len(exts) |-> Extension_component(exts[i])]
    \o [i \in 1..Len(applications) |-> MacApplication_component(applications[i])]

collect_from_json_ok ==
    \E no \in 0..MaxRecords : \E ne \in 0..(MaxRecords - no) :
    \E na \in 0..(MaxRecords - no - ne) :
    \E os \in [1..no -> OSRows], exts \in [1..ne -> ExtensionRows],
       applications \in [1..na -> MacApplicationRows] :
        /\ records' = [i \in 1..no |-> Met("os", os[i], TRUE)]
                        \o [i \in 1..ne |-> Met("extension", exts[i], TRUE)]
                        \o [i \in 1..na |-> Met("application", applications[i], TRUE)]
        /\ comps' = collect_from_json_push(os, exts, applications)
        /\ pc' = "collected"
        /\ err' = err

collect_from_json_err ==
    /\ Fail(Error("could not parse system_profiler output"))
    /\ UNCHANGED <<records, comps>>

\* macos::Collector::collect_from_json on the tool's stdout.
macos_collect_from_json ==
    /\ pc = "mac_json"
    /\ parsed' = parsed + 1
    /\ (collect_from_json_ok \/ collect_from_json_err)
    /\ UNCHANGED <<target, constructed, calls, toolRuns, toolExit, drivers, apps, location,
                   stdout, fn, arg, ret>>

\* windows::Collector::collect_drivers up to the CSV reader.
windows_collect ==
    /\ pc = "collect" /\ target = "windows"
    /\ \E exit \in {"spawn_failed", "nonzero", "ok"} : Spawn("driverquery", exit, "win_drivers")
    /\ parsed' = IF pc' = "win_drivers" THEN parsed + 1 ELSE parsed
    /\ UNCHANGED <<target, constructed, records, drivers, apps, location, comps, stdout,
                   fn, arg, ret>>

\* collect_drivers' loop as it would be with `?` on get_file_version: a
\* failed lookup ends the phase.
driver_record_lookup_fatal(row, native) ==
    LET parsed_driver == Driver_parse(Driver_deserialized(row))
        version == get_file_version(row.path, native)
    IN  IF ~parsed_driver.ok \/ ~version.ok
        THEN /\ Fail(Error("could not read driver"))
             /\ records' = Append(records, [source |-> "driver", row |-> row, emitted |-> FALSE,
                                            lookup |-> IF parsed_driver.ok THEN "failed"
                                                       ELSE "none"])
             /\ UNCHANGED drivers
        ELSE /\ drivers' = Append(drivers, Driver_component(
                                 [parsed_driver.value EXCEPT !.version = version.value]))
             /\ records' = Append(records, [source |-> "driver", row |-> row,
                                            emitted |-> TRUE, lookup |-> "ok"])
             /\ UNCHANGED <<pc, err>>

\* One pass of collect_drivers' loop over a row that deserializes: parse the
\* date, look the version up, push.  The row is noted in records with what
\* the lookup answered ("none" when the pass ended before it).
driver_record(row, native) ==
    LET parsed_driver == Driver_parse(Driver_deserialized(row))
        version == get_file_version(row.path, native)
        driver == IF version.ok THEN [parsed_driver.value EXCEPT !.version = version.value]
                  ELSE parsed_driver.value
    IN  IF ~parsed_driver.ok
        THEN /\ Fail(Error("could not parse driver datetime"))
             /\ records' = Append(records, [source |-> "driver", row |-> row,
                                            emitted |-> FALSE, lookup |-> "none"])
             /\ UNCHANGED drivers
        ELSE /\ drivers' = Append(drivers, Driver_component(driver))
             /\ records' = Append(records,
                                  [source |-> "driver", row |-> row, emitted |-> TRUE,
                                   lookup |-> IF version.ok THEN "ok" ELSE "failed"])
             /\ UNCHANGED <<pc, err>>

driver_record_undecodable ==
    /\ Fail(Error("could not deserialize driver record"))
    /\ UNCHANGED <<records, drivers>>

collect_drivers_next ==
    /\ pc = "win_drivers"
    /\ Len(records) < MaxRecords
    /\ \/ \E row \in DriverRows, native \in Natives : driver_record(row, native)
       \/ driver_record_undecodable
    /\ UNCHANGED <<target, constructed, calls, toolRuns, toolExit, parsed, apps, location,
                   comps, stdout, fn, arg, ret>>

\* The CSV is exhausted: collect_drivers returns Ok(comps), collect_apps starts.
collect_drivers_return ==
    /\ pc = "win_drivers"
    /\ pc' = "win_open_root"
    /\ location' = 1
    /\ UNCHANGED <<target, err, constructed, calls, toolRuns, toolExit, parsed, records,
                   drivers, apps, comps, stdout, fn, arg, ret>>

UNINSTALL_LOCATIONS ==
    <<"SOFTWARE\\Microsoft\\Windows\\CurrentVersion\\Uninstall",
      "SOFTWARE\\Wow6432Node\\Microsoft\\Windows\\CurrentVersion\\Uninstall">>

\* The opening of a root as it would be if its failure ended the phase with
\* what had been collected so far.
collect_apps_open_root_keeps_partial ==
    /\ pc = "win_open_root"
    /\ \/ /\ pc' = "collected"
          /\ err' = Error("can't open " \o UNINSTALL_LOCATIONS[location])
          /\ comps' = drivers \o apps
       \/ pc' = "win_subkeys" /\ err' = err /\ comps' = comps
    /\ UNCHANGED <<target, constructed, calls, toolRuns, toolExit, parsed, records, drivers,
                   apps, location, stdout, fn, arg, ret>>

\* HKLM.open_subkey(location)
collect_apps_open_root ==
    /\ pc = "win_open_root"
    /\ \/ Fail(Error("can't open " \o UNINSTALL_LOCATIONS[location]))
       \/ pc' = "win_subkeys" /\ err' = err
    /\ UNCHANGED <<target, constructed, calls, toolRuns, toolExit, parsed, records, drivers,
                   apps, location, comps, stdout, fn, arg, ret>>

\* An unwrap() of an Err: the process panics.
Panic ==
    /\ pc' = "panicked"
    /\ err' = Error("called Result::unwrap() on an Err value")

\* A subkey as the inner loop met it: the root it is under, its name, the
\* values read from it, and the call that ended the pass ("read" when every
\* call succeeded).
Subkey(name, values, outcome) ==
    [location |-> location, key |-> name, values |-> values, outcome |-> outcome]

\* The pass as it would be if the push were made for a DisplayName that is
\* not empty only.
subkey_read_named_only(name, values) ==
    LET emitted == /\ "DisplayName" \in DOMAIN values
                   /\ Application_regvalue_to_string(values["DisplayName"]) # <<>>
    IN  /\ records' = Append(records, Met("subkey", Subkey(name, values, "read"), emitted))
        /\ apps' = IF emitted
                   THEN Append(apps, WinApplication_component(Application_new(name, 3600, values)))
                   ELSE apps
        /\ UNCHANGED <<pc, err>>

\* One subkey whose name, handle, info and values were all read.
subkey_read(name, values) ==
    LET emitted == "DisplayName" \in DOMAIN values
    IN  /\ records' = Append(records, Met("subkey", Subkey(name, values, "read"), emitted))
        /\ apps' = IF emitted
                   THEN Append(apps, WinApplication_component(Application_new(name, 3600, values)))
                   ELSE apps
        /\ UNCHANGED <<pc, err>>

\* A pass that ends before the push: nothing is added to comps.
subkey_failed(name, values, outcome) ==
    /\ records' = Append(records, Met("subkey", Subkey(name, values, outcome), FALSE))
    /\ apps' = apps

\* enum_keys().map(|x| x.unwrap()) on an Err item.
subkey_enum_keys_err == Panic /\ subkey_failed(<<>>, <<>>, "enum_keys")

\* uninstall.open_subkey(&sub_key_name) fails.
subkey_open_err(name) == Fail(Error("can't open subkey")) /\ subkey_failed(name, <<>>, "open_subkey")

\* sub_key.query_info() fails.
subkey_query_info_err(name) ==
    Fail(Error("can't query info for subkey")) /\ subkey_failed(name, <<>>, "query_info")

\* enum_values().map(|x| x.unwrap()) on an Err item, after the values
\* before it were read.
subkey_enum_values_err(name, values) == Panic /\ subkey_failed(name, values, "enum_values")

\* One pass of collect_apps' inner loop.
collect_apps_next ==
    /\ pc = "win_subkeys"
    /\ Len(records) < MaxRecords
    /\ \/ subkey_enum_keys_err
       \/ \E name \in SubkeyNames : subkey_open_err(name)
       \/ \E name \in SubkeyNames : subkey_query_info_err(name)
       \/ \E name \in SubkeyNames, values \in SubkeyValues : subkey_enum_values_err(name, values)
       \/ \E name \in SubkeyNames, values \in SubkeyValues : subkey_read(name, values)
    /\ UNCHANGED <<target, constructed, calls, toolRuns, toolExit, parsed, drivers, location,
                   comps, stdout, fn, arg, ret>>

\* The subkey records met under root number l.
SubkeysUnder(l) ==
    {i \in 1..Len(records) : records[i].source = "subkey" /\ records[i].row.location = l}

\* The end of a root as it would be if a root without subkeys were an error.
collect_apps_root_done_empty_is_error ==
    /\ pc = "win_subkeys"
    /\ IF SubkeysUnder(location) = {}
       THEN /\ Fail(Error("no subkeys in " \o UNINSTALL_LOCATIONS[location]))
            /\ UNCHANGED <<location, comps>>
       ELSE /\ err' = err
            /\ IF location < Len(UNINSTALL_LOCATIONS)
               THEN location' = location + 1 /\ pc' = "win_open_root" /\ comps' = comps
               ELSE location' = location /\ pc' = "collected" /\ comps' = drivers \o apps
    /\ UNCHANGED <<target, constructed, calls, toolRuns, toolExit, parsed, records,
                   drivers, apps, stdout, fn, arg, ret>>

\* A root's subkeys are exhausted: on to the next root, or collect_apps
\* returns and collect() appends the applications to the drivers.
collect_apps_root_done ==
    /\ pc = "win_subkeys"
    /\ IF location < Len(UNINSTALL_LOCATIONS)
       THEN /\ location' = location + 1
            /\ pc' = "win_open_root"
            /\ comps' = comps
       ELSE /\ location' = location
            /\ pc' = "collected"
            /\ comps' = drivers \o apps
    /\ UNCHANGED <<target, err, constructed, calls, toolRuns, toolExit, parsed, records,
                   drivers, apps, stdout, fn, arg, ret>>

\* main() prints one line (or one JSON element) per component.
print ==
    /\ pc = "collected"
    /\ stdout' = comps
    /\ pc' = "exit_ok"
    /\ UNCHANGED <<target, err, constructed, calls, toolRuns, toolExit, parsed, records,
                   drivers, apps, location, comps, fn, arg, ret>>

Next ==
    \/ get
    \/ macos_collect
    \/ macos_collect_from_json
    \/ windows_collect
    \/ collect_drivers_next
    \/ collect_drivers_return
    \/ collect_apps_open_root
    \/ collect_apps_next
    \/ collect_apps_root_done
    \/ print

Spec == Init /\ [][Next]_vars

(***************************************************************************)
(* The registry inventory reader: enum_registry_uninstall_locations        *)
(* (windows/api.rs).  registry is what HKLM answers: for each uninstall     *)
(* root whether it opens and, in enumeration order, its subkeys, each with *)
(* its name, the call that ends its pass ("read" when none fails) and the  *)
(* values read from it.                                                    *)
(***************************************************************************)
UninstallEntry(key_name, modified, properties) ==
    [key_name |-> key_name, modified |-> modified, properties |-> properties]

\* The inner loop as it would be with the test collect_apps makes before
\* its push: only the subkeys that have a DisplayName are kept.
RECURSIVE EnumSubkeys_named_only(_, _, _)
EnumSubkeys_named_only(l, subkeys, found) ==
    IF subkeys = <<>> THEN [kind |-> "Ok", value |-> found]
    ELSE LET k == Head(subkeys) IN
         CASE k.outcome \in {"enum_keys", "enum_values"} -> [kind |-> "panic"]
           [] k.outcome = "open_subkey" ->
                  [kind |-> "Err", error |-> [msg |-> "can't open subkey", location |-> l,
                                              key |-> k.name]]
           [] k.outcome = "query_info" ->
                  [kind |-> "Err", error |-> [msg |-> "can't query info for subkey",
                                              location |-> l, key |-> k.name]]
           [] k.outcome = "read" ->
                  EnumSubkeys_named_only(l, Tail(subkeys),
                      IF "DisplayName" \in DOMAIN k.values
                      THEN Append(found, UninstallEntry(k.name, 3600,
                               [n \in DOMAIN k.values |-> regvalue_to_string(k.values[n])]))
                      ELSE found)

\* The inner loop over the subkeys of root number l: one entry pushed per
\* subkey, until a `?` returns an error or an unwrap() panics.
RECURSIVE EnumSubkeys(_, _, _)
EnumSubkeys(l, subkeys, found) ==
    IF subkeys = <<>> THEN [kind |-> "Ok", value |-> found]
    ELSE LET k == Head(subkeys) IN
         CASE k.outcome \in {"enum_keys", "enum_values"} -> [kind |-> "panic"]
           [] k.outcome = "open_subkey" ->
                  [kind |-> "Err", error |-> [msg |-> "can't open subkey", location |-> l,
                                              key |-> k.name]]
           [] k.outcome = "query_info" ->
                  [kind |-> "Err", error |-> [msg |-> "can't query info for subkey",
                                              location |-> l, key |-> k.name]]
           [] k.outcome = "read" ->
                  EnumSubkeys(l, Tail(subkeys),
                      Append(found, UninstallEntry(k.name, 3600,
                          [n \in DOMAIN k.values |-> regvalue_to_string(k.values[n])])))

\* The outer loop from root number l on.
RECURSIVE EnumLocations(_, _, _)
EnumLocations(registry, l, found) ==
    IF l > Len(UNINSTALL_LOCATIONS) THEN [kind |-> "Ok", value |-> found]
    ELSE IF ~registry[l].opens
    THEN [kind |-> "Err", error |-> Error("can't open " \o UNINSTALL_LOCATIONS[l])]
    ELSE LET r == EnumSubkeys(l, registry[l].subkeys, found) IN
         IF r.kind = "Ok" THEN EnumLocations(registry, l + 1, r.value) ELSE r

enum_registry_uninstall_locations(registry) == EnumLocations(registry, 1, <<>>)

(***************************************************************************)
(* Helper level: one call of one helper on an argument drawn from a        *)
(* bounded set.                                                            *)
(***************************************************************************)
\* Scalar values of every UTF-8 length, with the ends of the ranges.
CodePoints == {0, 65, 233, 8364, 65535, 65536, 128512, 1114111}

Strings == SeqsUpTo(CodePoints, MaxStrLen)

\* NUL, newline, a letter, and the two halves of a surrogate pair.
WordAlphabet == {0, 10, 65, 55357, 56832}

\* Registry data: whole 16-bit units, then possibly one odd byte.
RegBytes ==
    {WideBytes(w) \o odd : w \in SeqsUpTo(WordAlphabet, MaxWords), odd \in {<<>>, <<0>>, <<65>>}}

RegValues == [vtype : StringTypes \cup {"REG_DWORD"}, bytes : RegBytes]

\* 0, 0x00010002, 0x00030004, 0x0000FFFF, 0xFFFF0000, 0xFFFFFFFF, 0x12345678
U32Samples ==
    {<<0, 0, 0, 0>>, <<2, 0, 1, 0>>, <<4, 0, 3, 0>>, <<255, 255, 0, 0>>, <<0, 0, 255, 255>>,
     <<255, 255, 255, 255>>, <<120, 86, 52, 18>>}

VersionArgs ==
    [path : {Text(<<"p">>)},
     native : [size : {0, 8}, loaded : BOOLEAN, queried : BOOLEAN,
               ms : U32Samples, ls : U32Samples, last_error : {2}]]

PropertyNames ==
    <<"DisplayName", "DisplayVersion", "Version", "InstallLocation", "InstallSource",
      "BundleCachePath", "Publisher">>

\* The value of property number i when it is present: empty text, or a text
\* of its own.
PropertyValue(i, empty) == IF empty THEN Sz(<<>>) ELSE Sz(<<96 + i>>)

\* Every way each property can be absent, present and empty, or present
\* with text.
PropertyMaps ==
    {[n \in {PropertyNames[i] : i \in {j \in 1..Len(PropertyNames) : shape[j] # "absent"}} |->
        LET i == CHOOSE j \in 1..Len(PropertyNames) : PropertyNames[j] = n
        IN PropertyValue(i, shape[i] = "empty")] :
     shape \in [1..Len(PropertyNames) -> {"absent", "empty", "text"}]}

\* A REG_MULTI_SZ value of two segments.
MultiSz == [vtype |-> "REG_MULTI_SZ", bytes |-> WideBytes(<<65, NUL, 65, NUL, NUL>>)]

\* The subkeys a root can list: two names, with no value, a DisplayName, or
\* a multi-string and a binary value; and one subkey for each call that can
\* fail.
RegistrySubkeys ==
    [name : SubkeyNames, outcome : {"read"},
     values : {<<>>,
               [n \in {"DisplayName"} |-> Sz(Text(<<"n">>))],
               [n \in {"Comments", "NoModify"} |->
                   IF n = "Comments" THEN MultiSz
                   ELSE [vtype |-> "REG_DWORD", bytes |-> <<1, 0, 0, 0>>]]}]
    \cup [name : {Text(<<"k">>)},
          outcome : {"enum_keys", "open_subkey", "query_info", "enum_values"},
          values : {<<>>}]

\* A root that opens with exactly n subkeys.
RegistryRootsOf(n) == {[opens |-> TRUE, subkeys |-> ks] : ks \in [1..n -> RegistrySubkeys]}

\* A root that does not open, or one that opens with up to n subkeys.
RegistryRoots(n) ==
    {[opens |-> FALSE, subkeys |-> <<>>]} \cup UNION {RegistryRootsOf(m) : m \in 0..n}

\* The two roots, with MaxSubkeys subkeys at most between them.
Registries ==
    UNION {LET rest == RegistryRoots(MaxSubkeys - n)
           IN  {<<native, wow64>> :
                   native \in RegistryRootsOf(n) \cup {[opens |-> FALSE, subkeys |-> <<>>]},
                   wow64 \in rest} :
           n \in 0..MaxSubkeys}

\* No run is under way at the helper level.
IdleRun ==
    /\ target = "windows"
    /\ pc = "helper"
    /\ err = NoError
    /\ constructed = <<>>
    /\ calls = <<>>
    /\ toolRuns = 0
    /\ toolExit = "none"
    /\ parsed = 0
    /\ records = <<>>
    /\ drivers = <<>>
    /\ apps = <<>>
    /\ location = 0
    /\ comps = <<>>
    /\ stdout = <<>>

InitFn ==
    /\ IdleRun
    /\ ret = Pending
    /\ \/ fn \in {"string_to_u16", "str_to_pcwstr"} /\ arg \in Strings
       \/ fn \in {"regvalue_to_string", "Application::regvalue_to_string"} /\ arg \in RegValues
       \/ fn \in {"get_file_version", "parse_file_version"} /\ arg \in VersionArgs
       \/ fn = "Application::new" /\ arg \in PropertyMaps
       \/ fn = "enum_registry_uninstall_locations" /\ arg \in Registries

Return(name, value) ==
    /\ fn = name
    /\ ret = Pending
    /\ ret' = Returned(value)
    /\ UNCHANGED <<fn, arg, runVars>>

call_string_to_u16 == Return("string_to_u16", string_to_u16(arg))

call_str_to_pcwstr == Return("str_to_pcwstr", str_to_pcwstr(arg))

call_regvalue_to_string == Return("regvalue_to_string", regvalue_to_string(arg))

call_Application_regvalue_to_string ==
    Return("Application::regvalue_to_string", Application_regvalue_to_string(arg))

call_get_file_version == Return("get_file_version", get_file_version(arg.path, arg.native))

call_parse_file_version ==
    Return("parse_file_version", parse_file_version(arg.path, arg.native))

call_Application_new ==
    Return("Application::new", Application_new(Text(<<"k">>), 3600, arg))

call_enum_registry_uninstall_locations ==
    Return("enum_registry_uninstall_locations", enum_registry_uninstall_locations(arg))

NextFn ==
    \/ call_string_to_u16
    \/ call_str_to_pcwstr
    \/ call_regvalue_to_string
    \/ call_Application_regvalue_to_string
    \/ call_get_file_version
    \/ call_parse_file_version
    \/ call_Application_new
    \/ call_enum_registry_uninstall_locations

SpecFn == InitFn /\ [][NextFn]_vars

(***************************************************************************)
(* Claims.                                                                 *)
(***************************************************************************)
Finished == pc \in {"collected", "exit_ok"}

\* How many of the first i records met had a component pushed.
EmittedUpTo(i) == Cardinality({j \in 1..i : records[j].emitted})

FailedLookups == {i \in 1..Len(records) :
                     records[i].source = "driver" /\ records[i].lookup = "failed"}

\* C1: in the Windows driver phase, every driver record whose version
\* lookup returned an error still has its component pushed, with kind
\* Driver, the record's name and path, and an empty version; the rows after
\* it are processed, and when collect() returns it returns every pushed
\* driver followed by the applications.
C1_LookupFailureKeepsDriver ==
    target = "windows" =>
        /\ \A i \in FailedLookups :
              /\ records[i].emitted
              /\ EmittedUpTo(i) <= Len(drivers)
              /\ LET c == drivers[EmittedUpTo(i)] IN
                    /\ c.kind = "Driver"
                    /\ c.name = records[i].row.display_name
                    /\ c.path = records[i].row.path
                    /\ c.version = <<>>
        /\ pc = "exit_err" =>
              err.msg \in {"could not execute driverquery", "driverquery exit status",
                           "could not deserialize driver record",
                           "could not parse driver datetime",
                           "can't open " \o UNINSTALL_LOCATIONS[1],
                           "can't open " \o UNINSTALL_LOCATIONS[2],
                           "can't open subkey", "can't query info for subkey"}
        /\ Finished =>
              /\ comps = drivers \o apps
              /\ Len(comps) = EmittedUpTo(Len(records))

\* A finished Windows run whose first driver's lookup failed, followed by a
\* driver whose lookup succeeded and by an application.
C1_Witness ==
    /\ target = "windows" /\ pc = "exit_ok"
    /\ Len(records) = 3
    /\ records[1].source = "driver" /\ records[1].lookup = "failed"
    /\ records[2].source = "driver" /\ records[2].lookup = "ok"
    /\ records[3].source = "subkey" /\ records[3].emitted
    /\ Len(stdout) = 3
    /\ stdout[1].version = <<>> /\ stdout[1].kind = "Driver"
    /\ stdout[2].version = Text(<<"1", ".", "2", ".", "3", ".", "4">>)
    /\ stdout[3].kind = "Application"

\* C2: when the external tool cannot be started or exits non-zero, collect()
\* returns an error and no components; the tool is spawned at most once in a
\* run and its output is never handed to a parser after a failed exit.
C2_ToolFailureIsFatal ==
    /\ toolRuns <= 1
    /\ parsed <= 1
    /\ toolExit \in {"spawn_failed", "nonzero"} =>
          /\ pc = "exit_err"
          /\ err.msg \in {"could not execute system_profiler", "system_profiler exit status",
                          "could not execute driverquery", "driverquery exit status"}
          /\ parsed = 0
          /\ records = <<>> /\ comps = <<>> /\ drivers = <<>> /\ apps = <<>>
          /\ stdout = <<>>
    /\ parsed = 1 => toolExit = "ok"

C2_Witness ==
    /\ target = "windows" /\ toolExit = "nonzero" /\ toolRuns = 1
    /\ pc = "exit_err" /\ err = Error("driverquery exit status")

\* The k-th record met that had a component pushed.
RECURSIVE NthEmitted(_, _)
NthEmitted(k, from) ==
    IF records[from].emitted
    THEN (IF k = 1 THEN records[from] ELSE NthEmitted(k - 1, from + 1))
    ELSE NthEmitted(k, from + 1)

SourceOf(k) == NthEmitted(k, 1)

\* C3: the path of a Windows uninstall entry is the value of the first of
\* InstallLocation, InstallSource, BundleCachePath that is present and not
\* empty (a later candidate never overrides it, a present but empty one is
\* skipped), and is empty when there is none.
C3_FirstNonEmptyPath ==
    (fn = "Application::new" /\ ret # Pending) =>
        LET p == ret.value.properties
            c == <<"InstallLocation", "InstallSource", "BundleCachePath">>
            usable(i) == c[i] \in DOMAIN p /\ p[c[i]] # <<>>
        IN  /\ DOMAIN p = DOMAIN arg
            /\ \A i \in 1..3 :
                  (usable(i) /\ \A j \in 1..(i - 1) : ~usable(j)) => ret.value.path = p[c[i]]
            /\ (\A i \in 1..3 : ~usable(i)) => ret.value.path = <<>>

\* InstallLocation present and empty, InstallSource and BundleCachePath both
\* with text: the path is InstallSource's.
C3_Witness ==
    /\ fn = "Application::new" /\ ret # Pending
    /\ {"InstallLocation", "InstallSource", "BundleCachePath"} \subseteq DOMAIN arg
    /\ ret.value.properties["InstallLocation"] = <<>>
    /\ ret.value.properties["InstallSource"] # <<>>
    /\ ret.value.properties["BundleCachePath"] # <<>>
    /\ ret.value.properties["BundleCachePath"] # ret.value.properties["InstallSource"]
    /\ ret.value.path = ret.value.properties["InstallSource"]

\* The identifier field of a source record (none for the macOS OS and
\* Application records).
SourceId(r) ==
    CASE r.source = "driver" -> r.row.module_name
      [] r.source = "subkey" -> r.row.key
      [] r.source = "extension" -> r.row.bundleid
      [] OTHER -> <<>>

\* C4: every component a successful collect() returns has a non-empty id:
\* where the record's identifier field is empty, the id is the component's
\* name (read for the components that have a name at all).
C4_IdFallsBackToName ==
    Finished =>
        \A k \in 1..Len(comps) :
            /\ SourceId(SourceOf(k)) = <<>> => comps[k].id = comps[k].name
            /\ comps[k].name # <<>> => comps[k].id # <<>>

\* C5: a macOS Application component and the macOS OS pseudo-component, whose
\* records have no identifier field, have an id equal to their name.
C5_IdIsNameWithoutIdentifier ==
    (target = "macos" /\ Finished) =>
        \A k \in 1..Len(comps) :
            /\ SourceOf(k).source = "application" =>
                  comps[k].id = comps[k].name /\ comps[k].name = SourceOf(k).row.name
            /\ SourceOf(k).source = "os" =>
                  comps[k].id = comps[k].name /\ comps[k].name = Text(<<"m", "a", "c", "O", "S">>)

C5_Witness ==
    /\ target = "macos" /\ pc = "exit_ok"
    /\ Len(stdout) = 2
    /\ stdout[1].kind = "OS" /\ stdout[1].id = stdout[1].name
    /\ stdout[2].kind = "Application" /\ stdout[2].name = Text(<<"a">>)
    /\ stdout[2].id = Text(<<"a">>)

\* The pieces of s between the occurrences of sep, in order (one piece more
\* than there are occurrences).
RECURSIVE SplitAt(_, _)
SplitAt(s, sep) ==
    IF \A i \in 1..Len(s) : s[i] # sep THEN <<s>>
    ELSE LET i == CHOOSE k \in 1..Len(s) : s[k] = sep /\ \A j \in 1..(k - 1) : s[j] # sep
         IN  <<SubSeq(s, 1, i - 1)>> \o SplitAt(SubSeq(s, i + 1, Len(s)), sep)

RECURSIVE JoinWith(_, _)
JoinWith(pieces, sep) ==
    IF Len(pieces) = 1 THEN pieces[1]
    ELSE pieces[1] \o <<sep>> \o JoinWith(Tail(pieces), sep)

CountOf(s, ch) == Cardinality({i \in 1..Len(s) : s[i] = ch})

IsRegDecode == fn \in {"regvalue_to_string", "Application::regvalue_to_string"} /\ ret # Pending

\* The raw 16-bit units of the value, the units left when the terminating
\* NULs are taken off, and the NUL-delimited segments of those.
RawUnits == [i \in 1..(Len(arg.bytes) \div 2) |-> arg.bytes[2 * i - 1] + 256 * arg.bytes[2 * i]]

RECURSIVE Unterminated(_)
Unterminated(units) ==
    IF units # <<>> /\ units[Len(units)] = 0 THEN Unterminated(SubSeq(units, 1, Len(units) - 1))
    ELSE units

RawSegments == SplitAt(Unterminated(RawUnits), 0)

DecodedSegments == [i \in 1..Len(RawSegments) |-> from_utf16_lossy(RawSegments[i])]

\* C6 as claimed: a REG_MULTI_SZ value of N NUL-delimited segments decodes
\* to a text with exactly N-1 newline characters, the segments in their
\* order, and no NUL.
C6_ExactlyNMinusOneNewlines ==
    (IsRegDecode /\ arg.vtype = "REG_MULTI_SZ") =>
        /\ CountOf(ret.value, 10) = Len(RawSegments) - 1
        /\ CountOf(ret.value, 0) = 0
        /\ ret.value = JoinWith(DecodedSegments, 10)

\* C6 as amended: a REG_MULTI_SZ value decodes to its N segments (counted
\* once the terminating NULs are taken off) in their order, joined by single
\* newlines, with no NUL: N-1 newlines are put in, so the text has N-1
\* newline characters plus those the segments hold themselves, and exactly
\* N-1 when no segment holds one.
C6_SegmentsJoinedByNewlines ==
    (IsRegDecode /\ arg.vtype = "REG_MULTI_SZ") =>
        /\ ret.value = JoinWith(DecodedSegments, 10)
        /\ CountOf(ret.value, 0) = 0
        /\ CountOf(ret.value, 10) = (Len(RawSegments) - 1) + CountOf(RawUnits, 10)
        /\ CountOf(RawUnits, 10) = 0 => CountOf(ret.value, 10) = Len(RawSegments) - 1

\* An empty first segment, a second segment, and a terminating NUL.
C6_Witness ==
    /\ IsRegDecode /\ arg.vtype = "REG_MULTI_SZ"
    /\ RawUnits = <<0, 65, 0, 0>>
    /\ Len(RawSegments) = 2
    /\ ret.value = <<10, 65>>

\* C7: the text decoded from a string-typed registry value of any byte
\* length never ends with a NUL.
C7_NoTrailingNul ==
    (IsRegDecode /\ arg.vtype \in {"REG_SZ", "REG_EXPAND_SZ", "REG_MULTI_SZ"}) =>
        (ret.value = <<>> \/ ret.value[Len(ret.value)] # 0)

\* A buffer padded with several NULs, of odd byte length.
C7_Witness ==
    /\ fn = "Application::regvalue_to_string" /\ ret # Pending
    /\ arg.vtype = "REG_SZ"
    /\ arg.bytes = <<65, 0, 0, 0, 0, 0, 0>>
    /\ ret.value = <<65>>

IsEncode == fn \in {"string_to_u16", "str_to_pcwstr"} /\ ret # Pending

\* The encoder's buffer as the bytes of a REG_SZ value, decoded.
DecodedBack == regvalue_to_string([vtype |-> "REG_SZ", bytes |-> WideBytes(ret.value)])

RECURSIVE ParseDecimal(_)
ParseDecimal(digits) ==
    IF Len(digits) = 1 THEN digits[1] - 48
    ELSE 10 * ParseDecimal(SubSeq(digits, 1, Len(digits) - 1)) + (digits[Len(digits)] - 48)

IsDecimal(digits) ==
    /\ digits # <<>>
    /\ \A i \in 1..Len(digits) : digits[i] \in 48..57
    /\ Len(digits) > 1 => digits[1] # 48

IsVersion == fn \in {"get_file_version", "parse_file_version"} /\ ret # Pending /\ ret.value.ok

\* C9: the version string is the four decimal numbers high >> 16,
\* high & 0xFFFF, low >> 16, low & 0xFFFF joined by dots, each in 0..65535;
\* 0x00010002 and 0x00030004 give "1.2.3.4".
C9_VersionQuadruplet ==
    IsVersion =>
        LET parts == SplitAt(ret.value.value, 46)
            ms == arg.native.ms
            ls == arg.native.ls
        IN  /\ Len(parts) = 4
            /\ \A i \in 1..4 : IsDecimal(parts[i]) /\ ParseDecimal(parts[i]) \in 0..65535
            /\ ParseDecimal(parts[1]) = ms[3] + 256 * ms[4]
            /\ ParseDecimal(parts[2]) = ms[1] + 256 * ms[2]
            /\ ParseDecimal(parts[3]) = ls[3] + 256 * ls[4]
            /\ ParseDecimal(parts[4]) = ls[1] + 256 * ls[2]
            /\ (ms = <<2, 0, 1, 0>> /\ ls = <<4, 0, 3, 0>>) =>
                  ret.value.value = <<49, 46, 50, 46, 51, 46, 52>>

C9_Witness ==
    /\ fn = "parse_file_version" /\ ret # Pending /\ ret.value.ok
    /\ arg.native.ms = <<2, 0, 1, 0>> /\ arg.native.ls = <<4, 0, 3, 0>>
    /\ ret.value.value = <<49, 46, 50, 46, 51, 46, 52>>

\* C10: on a target without a platform collector get() returns "unsupported
\* operating system" and no collector's setup() or collect() is ever invoked;
\* on a supported target exactly one collector is constructed and its
\* setup() has returned before collect() is called.
C10_DispatchBeforeCollection ==
    /\ target = "linux" =>
          /\ pc \in {"start", "exit_err"}
          /\ pc = "exit_err" => err = Error("unsupported operating system")
          /\ constructed = <<>> /\ calls = <<>>
          /\ toolRuns = 0 /\ records = <<>> /\ comps = <<>> /\ stdout = <<>>
    /\ target # "linux" =>
          /\ pc = "start" => constructed = <<>> /\ calls = <<>>
          /\ pc # "start" => constructed = <<target>>
          /\ calls \in {<<>>, <<"setup">>, <<"setup", "collect">>}
          /\ err # Error("unsupported operating system")
          /\ (toolRuns > 0 \/ records # <<>>) => calls = <<"setup", "collect">>

C10_Witness ==
    /\ target = "linux" /\ pc = "exit_err"
    /\ err = Error("unsupported operating system")
    /\ calls = <<>>

\* The application components of the subkey records met, in order.
RECURSIVE AppsOf(_)
AppsOf(rs) ==
    IF rs = <<>> THEN <<>>
    ELSE (IF Head(rs).source = "subkey" /\ Head(rs).emitted
          THEN <<WinApplication_component(
                     Application_new(Head(rs).row.key, 3600, Head(rs).row.values))>>
          ELSE <<>>) \o AppsOf(Tail(rs))

\* C11: a registry root that opened and under which no subkey was met adds
\* no component and raises no error: while the run is at such a root the
\* only error it can be in is the failure to open that root, the roots
\* before it contributed what the applications hold, and a run that
\* finished went through both roots, whatever the number of their subkeys,
\* with exactly the components of the subkeys that had a DisplayName.
C11_EmptyRootContributesNothing ==
    target = "windows" =>
        /\ apps = AppsOf(records)
        /\ (location >= 1 /\ SubkeysUnder(location) = {}) =>
              /\ pc \in {"win_open_root", "win_subkeys", "collected", "exit_ok", "exit_err"}
              /\ pc = "exit_err" => err = Error("can't open " \o UNINSTALL_LOCATIONS[location])
              /\ pc # "exit_err" => err = NoError
        /\ pc = "win_subkeys" => err = NoError
        /\ Finished => location = Len(UNINSTALL_LOCATIONS) /\ err = NoError

\* A finished run whose first root had no subkeys and whose second root had
\* one, which is the one application of the output.
C11_Witness ==
    /\ target = "windows" /\ pc = "exit_ok" /\ err = NoError
    /\ SubkeysUnder(1) = {} /\ SubkeysUnder(2) # {}
    /\ Len(apps) = 1
    /\ stdout = drivers \o apps

\* The place of a component's group in the output of its platform.
GroupRank(kind) == CASE kind = "OS" -> 1 [] kind = "Driver" -> 2 [] kind = "Application" -> 3

\* The kind of the component pushed for a record of each source.
KindOfSource(source) ==
    CASE source = "os" -> "OS"
      [] source \in {"driver", "extension"} -> "Driver"
      [] source \in {"subkey", "application"} -> "Application"

\* Whether component c is the one of source record r, by the fields that
\* tell the records of a group apart.
IsComponentOf(c, r) ==
    /\ c.kind = KindOfSource(r.source)
    /\ CASE r.source = "os" -> c.version \in {r.row.os_version, Text(<<"1", "4">>)}
         [] r.source = "driver" ->
                c.name = r.row.display_name /\ c.id = r.row.module_name /\ c.path = r.row.path
         [] r.source = "extension" -> c.name = r.row.name /\ c.id = r.row.bundleid
         [] r.source = "application" -> c.name = r.row.name /\ c.path = r.row.path
         [] r.source = "subkey" -> c.id = r.row.key

EmittedOf(sources) == {i \in 1..Len(records) : records[i].source \in sources /\ records[i].emitted}

\* C12: what a successful collect() returns is one component per record that
\* had one pushed, in the order the records were listed, the groups in the
\* fixed order OS, drivers, applications (drivers, applications on Windows):
\* the k-th component is the one of the k-th such record, kinds never go
\* back to an earlier group, and the count is the sum of the groups' sizes.
C12_GroupsConcatenatedInOrder ==
    Finished =>
        /\ Len(comps) = Cardinality(EmittedOf({"os"}))
                          + Cardinality(EmittedOf({"driver", "extension"}))
                          + Cardinality(EmittedOf({"subkey", "application"}))
        /\ \A k \in 1..Len(comps) : IsComponentOf(comps[k], SourceOf(k))
        /\ \A j, k \in 1..Len(comps) : j < k => GroupRank(comps[j].kind) <= GroupRank(comps[k].kind)
        /\ target = "windows" => \A k \in 1..Len(comps) : comps[k].kind # "OS"
        /\ \A i, j \in 1..Len(records) :
              (i < j /\ records[i].emitted /\ records[j].emitted) =>
                  GroupRank(KindOfSource(records[i].source))
                      <= GroupRank(KindOfSource(records[j].source))

\* A macOS run that returned an OS record, an extension and an application,
\* in that order.
C12_Witness ==
    /\ target = "macos" /\ pc = "exit_ok"
    /\ Len(comps) = 3
    /\ comps[1].kind = "OS" /\ comps[2].kind = "Driver" /\ comps[3].kind = "Application"
    /\ comps[2].id = Text(<<"b">>) /\ comps[3].name = Text(<<"a">>)
    /\ stdout = comps

\* The UTF-16 units of one scalar value.
UnitsOf(c) ==
    IF c <= 65535 THEN <<c>>
    ELSE <<55296 + ((c - 65536) \div 1024), 56320 + ((c - 65536) % 1024)>>

\* The UTF-16 units of the argument string, without a terminator.
ArgUnits == Concat([i \in 1..Len(arg) |-> UnitsOf(arg[i])])

IsVersionCall == fn \in {"get_file_version", "parse_file_version"} /\ ret # Pending

\* C14: the version extractor issues GetFileVersionInfoSizeW, then
\* GetFileVersionInfoW, then VerQueryValueW, stopping at the first that
\* fails: the load is issued only after a non-zero size, with a buffer of at
\* least that size and that length, the block query only after the load
\* succeeded; the error of a failing step names that step, the path and the
\* last-error code, and a version is returned only after all three
\* succeeded.
C14_NativeCallsInOrder ==
    IsVersionCall =>
        LET r == ret.value
            n == arg.native
            order == <<"GetFileVersionInfoSizeW", "GetFileVersionInfoW", "VerQueryValueW">>
            k == Len(r.issued)
        IN  /\ k \in 1..3
            /\ \A i \in 1..k : r.issued[i].api = order[i]
            /\ k >= 2 => /\ n.size # 0
                         /\ r.issued[2].buffer >= n.size
                         /\ r.issued[2].len = n.size
            /\ k = 3 => n.loaded /\ r.issued[3].buffer = r.issued[2].buffer
            /\ r.ok => k = 3 /\ n.size # 0 /\ n.loaded /\ n.queried
            /\ ~r.ok =>
                  /\ r.error = [api |-> order[k], path |-> arg.path, code |-> n.last_error]
                  /\ k = 1 <=> n.size = 0
                  /\ k = 2 <=> (n.size # 0 /\ ~n.loaded)
                  /\ k = 3 <=> (n.size # 0 /\ n.loaded /\ ~n.queried)

\* A file whose size query succeeds and whose load fails: two calls, and an
\* error naming the load.
C14_Witness ==
    /\ fn = "get_file_version" /\ ret # Pending
    /\ arg.native.size = 8 /\ ~arg.native.loaded /\ arg.native.queried
    /\ ~ret.value.ok
    /\ Len(ret.value.issued) = 2
    /\ ret.value.error.api = "GetFileVersionInfoW"

\* The subkey records whose value enumeration met a value that could not be
\* read.
UnreadableValue ==
    {i \in 1..Len(records) :
        records[i].source = "subkey" /\ records[i].row.outcome = "enum_values"}

\* C15: a value that cannot be read while a subkey's values are enumerated
\* does not end the run: the process does not panic, and the entry is kept
\* with its other values (it has a component when its DisplayName was among
\* those read).
C15_UnreadableValueIsSkipped ==
    \A i \in UnreadableValue :
        /\ pc # "panicked"
        /\ records[i].emitted = ("DisplayName" \in DOMAIN records[i].row.values)

\* The errors of the fatal conditions: a record that cannot be decoded, a
\* malformed driver date, a root or subkey that cannot be opened or queried.
FatalErrors ==
    {Error("could not parse system_profiler output"),
     Error("could not deserialize driver record"),
     Error("could not parse driver datetime"),
     Error("can't open " \o UNINSTALL_LOCATIONS[1]),
     Error("can't open " \o UNINSTALL_LOCATIONS[2]),
     Error("can't open subkey"),
     Error("can't query info for subkey")}

\* C16: once a fatal condition occurred the run has ended with that error,
\* collect() has returned no component (neither those of the records
\* already processed nor those of the phases before) and nothing is
\* printed; what is printed is printed by a run without error.
C16_FatalErrorDiscardsEverything ==
    /\ err # NoError => pc \in {"exit_err", "panicked"}
    /\ err \in FatalErrors => pc = "exit_err" /\ comps = <<>> /\ stdout = <<>>
    /\ pc = "exit_err" => comps = <<>> /\ stdout = <<>>
    /\ (comps # <<>> \/ stdout # <<>>) => err = NoError /\ Finished

\* A Windows run that collected a driver and an application of the first
\* root, then could not open the second root.
C16_Witness ==
    /\ target = "windows" /\ pc = "exit_err"
    /\ err = Error("can't open " \o UNINSTALL_LOCATIONS[2])
    /\ drivers # <<>> /\ apps # <<>>
    /\ comps = <<>> /\ stdout = <<>>

DriverRecords == {i \in 1..Len(records) : records[i].source = "driver"}

\* C17: a driver record with an empty link date is accepted with the
\* default instant as its modified timestamp; one with a well-formed link
\* date is accepted with the parsed instant; one with a non-empty link date
\* that does not parse has no component, and the run has ended with the
\* datetime parse error, returning nothing.
C17_LinkDateParsedOrFatal ==
    target = "windows" =>
        \A i \in DriverRecords :
            LET date == records[i].row.link_date_string
                k == EmittedUpTo(i)
            IN  CASE date = <<>> ->
                       /\ records[i].emitted
                       /\ drivers[k].kind = "Driver"
                       /\ drivers[k].modified = 0
                  [] date = Text(<<"1", "/", "2">>) ->
                       /\ records[i].emitted
                       /\ drivers[k].kind = "Driver"
                       /\ drivers[k].modified = 86400
                  [] OTHER ->
                       /\ ~records[i].emitted
                       /\ i = Len(records) /\ Len(drivers) = i - 1
                       /\ pc = "exit_err"
                       /\ err = Error("could not parse driver datetime")
                       /\ comps = <<>> /\ stdout = <<>>

\* A driver without link date, one with a well-formed date, and one whose
\* date does not parse.
C17_Witness ==
    /\ target = "windows" /\ pc = "exit_err"
    /\ err = Error("could not parse driver datetime")
    /\ Len(records) = 3 /\ Len(drivers) = 2
    /\ records[1].row.link_date_string = <<>> /\ drivers[1].modified = 0
    /\ records[2].row.link_date_string = Text(<<"1", "/", "2">>) /\ drivers[2].modified = 86400
    /\ records[3].row.link_date_string = Text(<<"x">>) /\ ~records[3].emitted

\* s without the prefix p, when it starts with it.
WithoutPrefix(s, p) ==
    IF Len(s) >= Len(p) /\ SubSeq(s, 1, Len(p)) = p THEN SubSeq(s, Len(p) + 1, Len(s)) ELSE s

\* The version reports of the run (the os records of the macOS profile).
VersionReports == {i \in 1..Len(records) : records[i].source = "os"}

\* C18: what a successful collect() returns, on Windows as on macOS, holds
\* an OS pseudo-component: kind OS, a fixed non-empty name, a root path,
\* the default instant, the vendor's publishers, and (on macOS) the version
\* of a version report without its "macOS " prefix (read for the macOS runs
\* whose profile holds a version report).
C18_OSPseudoComponentOnBothPlatforms ==
    (Finished /\ (target = "macos" => VersionReports # {})) =>
        \E k \in 1..Len(comps) :
            /\ comps[k].kind = "OS"
            /\ comps[k].name # <<>>
            /\ target = "macos" => comps[k].name = Text(<<"m", "a", "c", "O", "S">>)
            /\ comps[k].path # <<>>
            /\ target = "macos" => comps[k].path = Text(<<"/">>)
            /\ comps[k].modified = 0
            /\ comps[k].publishers # <<>>
            /\ target = "macos" =>
                  \E i \in VersionReports :
                      comps[k].version
                          = WithoutPrefix(records[i].row.os_version,
                                          Text(<<"m", "a", "c", "O", "S", " ">>))

IsApplicationNew == fn = "Application::new" /\ ret # Pending

\* C19 as claimed: the version of an uninstall entry is DisplayVersion's
\* text when DisplayVersion is present and not empty, otherwise Version's
\* text when Version is present, otherwise empty.
C19_VersionFallsBackWhenUnusable ==
    IsApplicationNew =>
        LET p == ret.value.properties
            usable == "DisplayVersion" \in DOMAIN p /\ p["DisplayVersion"] # <<>>
        IN  ret.value.version =
                IF usable THEN p["DisplayVersion"]
                ELSE IF "Version" \in DOMAIN p THEN p["Version"]
                ELSE <<>>

\* C19 as amended: the version is DisplayVersion's text whenever the entry
\* has a DisplayVersion value, empty or not; Version's text when it has no
\* DisplayVersion and has a Version; empty when it has neither.  The record
\* is built in every case.
C19_VersionFallsBackWhenAbsent ==
    IsApplicationNew =>
        LET p == ret.value.properties
        IN  /\ DOMAIN p = DOMAIN arg
            /\ "DisplayVersion" \in DOMAIN p => ret.value.version = p["DisplayVersion"]
            /\ ("DisplayVersion" \notin DOMAIN p /\ "Version" \in DOMAIN p) =>
                  ret.value.version = p["Version"]
            /\ ("DisplayVersion" \notin DOMAIN p /\ "Version" \notin DOMAIN p) =>
                  ret.value.version = <<>>

\* An entry whose DisplayVersion is present and empty and whose Version has
\* text: the version is empty.
C19_Witness ==
    /\ IsApplicationNew
    /\ {"DisplayVersion", "Version"} \subseteq DOMAIN arg
    /\ ret.value.properties["DisplayVersion"] = <<>>
    /\ ret.value.properties["Version"] # <<>>
    /\ ret.value.version = <<>>

IsEnumRegistry == fn = "enum_registry_uninstall_locations" /\ ret # Pending

\* The subkeys of both roots in the order the reader goes through them.
AllSubkeys == arg[1].subkeys \o arg[2].subkeys

\* C20: when the registry reader returns its entries, there is exactly one
\* per subkey of the two roots, the native root's first, then the WOW64
\* root's, each in enumeration order: as many entries as the two roots have
\* subkeys, the i-th with the i-th subkey's name as key_name and, under
\* each of the subkey's value names, the decoded text of the value; a name
\* listed under both roots has an entry for each.  The entries are returned
\* exactly when both roots open and every subkey is read.
C20_OneEntryPerSubkey ==
    IsEnumRegistry =>
        /\ ret.value.kind = "Ok" <=>
              /\ arg[1].opens /\ arg[2].opens
              /\ \A i \in 1..Len(AllSubkeys) : AllSubkeys[i].outcome = "read"
        /\ ret.value.kind = "Ok" =>
              LET found == ret.value.value IN
              /\ Len(found) = Len(arg[1].subkeys) + Len(arg[2].subkeys)
              /\ \A i \in 1..Len(found) :
                    /\ found[i].key_name = AllSubkeys[i].name
                    /\ DOMAIN found[i].properties = DOMAIN AllSubkeys[i].values
                    /\ \A n \in DOMAIN found[i].properties :
                          found[i].properties[n] = regvalue_to_string(AllSubkeys[i].values[n])
              /\ \A i \in 1..Len(arg[1].subkeys), j \in 1..Len(arg[2].subkeys) :
                    arg[1].subkeys[i].name = arg[2].subkeys[j].name =>
                        /\ found[i].key_name = arg[1].subkeys[i].name
                        /\ found[Len(arg[1].subkeys) + j].key_name = arg[1].subkeys[i].name

\* The same subkey name under both roots, without values under the first
\* and with a multi-string under the second: two entries.
C20_Witness ==
    /\ IsEnumRegistry /\ ret.value.kind = "Ok"
    /\ Len(arg[1].subkeys) = 1 /\ Len(arg[2].subkeys) = 1
    /\ Len(ret.value.value) = 2
    /\ ret.value.value[1].key_name = Text(<<"k">>)
    /\ ret.value.value[1].properties = <<>>
    /\ ret.value.value[2].key_name = Text(<<"k">>)
    /\ DOMAIN ret.value.value[2].properties = {"Comments", "NoModify"}
    /\ ret.value.value[2].properties["Comments"] = <<65, 10, 65>>
    /\ ret.value.value[2].properties["NoModify"]
          = Text(<<"[", "1", ",", " ", "0", ",", " ", "0", ",", " ", "0", "]">>)

\* The native calls that are handed the filename pointer.
FilenameCalls == {"GetFileVersionInfoSizeW", "GetFileVersionInfoW"}

\* C21: at every native call of the version extractor that is handed the
\* filename pointer (the size query and the load), the UTF-16 buffer the
\* pointer was taken from is still allocated.
C21_FilenameLiveAtEveryCall ==
    IsVersionCall =>
        \A i \in 1..Len(ret.value.issued) :
            ret.value.issued[i].api \in FilenameCalls => ret.value.issued[i].filename_live

\* The subkey records among the first i records that had a component
\* pushed.
AppsUpTo(i) == Cardinality({j \in 1..i : records[j].source = "subkey" /\ records[j].emitted})

SubkeyRecords == {i \in 1..Len(records) : records[i].source = "subkey"}

\* C22: an uninstall subkey has an Application component exactly when it
\* was read and has a value named DisplayName: a subkey read without
\* DisplayName has none, and one whose DisplayName is empty has one, with
\* an empty name; the component's id is the subkey's name and its name the
\* text of DisplayName.
C22_ApplicationIffDisplayName ==
    target = "windows" =>
        /\ Len(apps) = AppsUpTo(Len(records))
        /\ \A i \in SubkeyRecords :
              LET r == records[i].row IN
              /\ records[i].emitted <=> (r.outcome = "read" /\ "DisplayName" \in DOMAIN r.values)
              /\ records[i].emitted =>
                    LET c == apps[AppsUpTo(i)] IN
                    /\ c.kind = "Application"
                    /\ c.id = r.key
                    /\ c.name = regvalue_to_string(r.values["DisplayName"])
                    /\ r.values["DisplayName"] = Sz(<<>>) => c.name = <<>>
        /\ Finished => comps = drivers \o apps

\* A finished run that read a subkey without values, which has no
\* component, and one with an empty DisplayName, which has one.
C22_Witness ==
    /\ target = "windows" /\ pc = "exit_ok"
    /\ Len(records) = 2 /\ Len(stdout) = 1
    /\ records[1].source = "subkey" /\ records[1].row.outcome = "read"
    /\ records[1].row.values = <<>> /\ ~records[1].emitted
    /\ records[2].source = "subkey" /\ records[2].row.values["DisplayName"] = Sz(<<>>)
    /\ records[2].emitted
    /\ stdout[1].kind = "Application" /\ stdout[1].name = <<>>
    /\ stdout[1].id = records[2].row.key

====
